---- MODULE Spec2Model ----
(***************************************************************************)
(* Dialogue router of the MedAssistant Flask app (src/app.py): the session *)
(* dictionary, POST /api/chat (chat_api) and POST /api/reset (reset_chat), *)
(* with the pattern matchers, the pharmacy ranker, the search-grounded     *)
(* answerer and the history buffer they call.                              *)
(*                                                                         *)
(* Texts are sequences of pieces.  A piece is a maximal run of word        *)
(* characters (a lower-cased word, or a run of digits) or a fixed fragment *)
(* of a reply; it records the number of separator characters before it     *)
(* (sp) and its own number of characters (n).  The regular expressions of  *)
(* the source are whole-word patterns, so they are evaluated piece by      *)
(* piece.                                                                  *)
(***************************************************************************)
EXTENDS Integers, Sequences, FiniteSets, TLC

VARIABLES
    session,    \* flask.session: a dictionary with the keys "awaiting_zip",
                \* "pharmacy_limit" and "history", each present or absent
    request,    \* the request handled last: its route, its message and the
                \* session's "awaiting_zip" ("" for none) when it arrived
    response,   \* the response to it: [status, kind, text]
    calls,      \* the external services called while handling it, in order
    used_limit, \* the limit format_pharmacy_list was called with (0: not called)
    answers     \* the answers of the external services it consulted

vars == <<session, request, response, calls, used_limit, answers>>

----------------------------------------------------------------------------
(* Configuration *)

MAX_HISTORY_ITEMS == 8
MAX_HISTORY_CHARS == 200

\* HEALTH_ALLOWED_DOMAINS of the deployment, each domain as its labels
HEALTH_ALLOWED_DOMAINS == { <<"who", "int">> }

----------------------------------------------------------------------------
(* Texts *)

Min(a, b) == IF a < b THEN a ELSE b
Max(a, b) == IF a > b THEN a ELSE b

Word(w)    == [w |-> w, d |-> <<>>, sp |-> 1, n |-> Len(w)]
Digits(d)  == [w |-> "", d |-> d, sp |-> 1, n |-> Len(d)]
\* a fixed fragment of a reply
Frag(w)    == [w |-> w, d |-> <<>>, sp |-> 0, n |-> Len(w)]

RECURSIVE TextLen(_)
TextLen(t) ==
    IF t = <<>> THEN 0 ELSE t[1].sp + t[1].n + TextLen(Tail(t))

\* a run of k white-space characters with nothing after it
Blank(k)   == [w |-> "", d |-> <<>>, sp |-> k, n |-> 0]

\* str.strip(): leading and trailing white space goes
RECURSIVE LStrip(_)
LStrip(t) ==
    IF t = <<>> THEN <<>>
    ELSE IF t[1].n = 0 THEN LStrip(Tail(t))
    ELSE <<[t[1] EXCEPT !.sp = 0]>> \o Tail(t)

RECURSIVE RStrip(_)
RStrip(t) ==
    IF t = <<>> THEN <<>>
    ELSE IF t[Len(t)].n = 0 THEN RStrip(SubSeq(t, 1, Len(t) - 1))
    ELSE t

Strip(t) == LStrip(RStrip(t))

\* text[:k]
RECURSIVE Slice(_, _)
Slice(t, k) ==
    IF t = <<>> \/ k <= 0 THEN <<>>
    ELSE IF t[1].sp >= k
         THEN <<Blank(k)>>
    ELSE IF t[1].sp + t[1].n <= k
         THEN <<t[1]>> \o Slice(Tail(t), k - t[1].sp - t[1].n)
         ELSE <<[t[1] EXCEPT !.n = k - t[1].sp,
                             !.d = SubSeq(@, 1, Min(Len(@), k - t[1].sp))]>>

----------------------------------------------------------------------------
(* Pattern matchers *)

\* \b\d{5}(?:-\d{4})?\b: a run of exactly five digits (the optional "-dddd" of
\* a ZIP+4 changes neither whether nor where the pattern matches)
IsZipPiece(p)   == Len(p.d) = 5
\* \b(\d{1,2})\b: a run of exactly one or two digits
IsCountPiece(p) == Len(p.d) \in {1, 2}

\* the leftmost of the matching positions S: its index, or 0 for no match
Leftmost(S) == IF S = {} THEN 0 ELSE CHOOSE i \in S : \A j \in S : i <= j

\* ZIP_RE.search(text): the index of the first five-digit run, 0 for None
ZIP_RE(t) == Leftmost({i \in 1 .. Len(t) : IsZipPiece(t[i])})

\* COUNT_RE.search(text): the index of the first run of one or two digits
COUNT_RE(t) == Leftmost({i \in 1 .. Len(t) : IsCountPiece(t[i])})

PharmWords    == {"pharmacy", "pharmacies", "drugstore", "chemist", "chemists"}
FollowupWords == {"closest", "nearest", "nearby", "more"}
HealthWords ==
    {"ibuprofen", "acetaminophen", "aspirin", "tylenol", "advil", "motrin", "aleve",
     "symptom", "symptoms", "diagnos", "treat", "treatment", "dose", "dosage",
     "sideeffect", "contraindicat", "interact", "medication", "medicine", "drug",
     "vaccine", "vaccination", "condition", "disease", "infection", "injury",
     "pain", "fever", "cough", "diarrhea", "asthma", "hypertension", "diabetes",
     "cancer", "migraine", "allergy", "dermatitis", "rash", "anxiety", "depression"}

\* word a, at most maxsp white-space characters, word b
Adjacent(t, a, b, maxsp) ==
    \E i \in 1 .. Len(t) - 1 :
        t[i].w = a /\ t[i + 1].w = b /\ t[i + 1].sp \in 1 .. maxsp

PHARM_INTENT_RE(t) ==
    \/ \E i \in 1 .. Len(t) : t[i].w \in PharmWords
    \/ Adjacent(t, "drug", "store", 1)                \* drug ?store

FOLLOWUP_WORDS_RE(t) == \E i \in 1 .. Len(t) : t[i].w \in FollowupWords

HEALTH_INTENT_RE(t) ==
    \/ \E i \in 1 .. Len(t) : t[i].w \in HealthWords
    \/ Adjacent(t, "side", "effect", MAX_HISTORY_CHARS + 100)   \* side\s*effect

\* int(m.group(1)) of a run of digits
RECURSIVE IntOf(_)
IntOf(d) ==
    IF d = <<>> THEN 0 ELSE 10 * IntOf(SubSeq(d, 1, Len(d) - 1)) + d[Len(d)]

\* extract_requested_count without the clamp to [1, 20]
extract_requested_count_unclamped(text, default) ==
    LET m == COUNT_RE(text)
    IN  IF m = 0 THEN default ELSE IntOf(text[m].d)

extract_requested_count(text, default) ==
    LET m == COUNT_RE(text)
    IN  IF m = 0 THEN default
        ELSE Max(1, Min(20, IntOf(text[m].d)))

is_health_question(text) ==
    IF PHARM_INTENT_RE(text) THEN FALSE ELSE HEALTH_INTENT_RE(text)

----------------------------------------------------------------------------
(* OSM helpers.  The answer of an external service is an input of the      *)
(* request: err stands for a transport error, a non-2xx status or a body   *)
(* that does not parse.                                                    *)

None == <<>>

\* geocode_zip: (lat, lon) of the first item, None for no item or an error
geocode_zip(zip_code, nominatim) ==
    IF nominatim.err THEN None
    ELSE IF nominatim.items = <<>> THEN None
    ELSE <<nominatim.items[1].lat, nominatim.items[1].lon>>

\* overpass_find_pharmacies: the elements of the answer, [] for an error
overpass_find_pharmacies(lat, lon, overpass) ==
    IF overpass.err THEN <<>> ELSE overpass.elements

\* An element carries its position as a node ("lat"/"lon"), as the centre of a
\* way or relation ("center"), or not at all; km is the great-circle distance
\* of that position from the query coordinate, in whole kilometres.
haversine_km(lat, lon, el_coords) == el_coords[1]

_element_coords(el) ==
    IF el.pos = "node" THEN <<el.km>>
    ELSE IF el.pos = "center" THEN <<el.km>>
    ELSE None

\* an unstable sort: a row goes before the rows of the same key
RECURSIVE InsertRow_before_equals(_, _)
InsertRow_before_equals(sorted, r) ==
    IF sorted = <<>> THEN <<r>>
    ELSE IF sorted[Len(sorted)].km < r.km THEN Append(sorted, r)
    ELSE Append(InsertRow_before_equals(SubSeq(sorted, 1, Len(sorted) - 1), r),
                sorted[Len(sorted)])

\* list.sort(key=...) is stable: a row goes after the rows whose key is not larger
RECURSIVE InsertRow(_, _)
InsertRow(sorted, r) ==
    IF sorted = <<>> THEN <<r>>
    ELSE IF sorted[Len(sorted)].km <= r.km THEN Append(sorted, r)
    ELSE Append(InsertRow(SubSeq(sorted, 1, Len(sorted) - 1), r), sorted[Len(sorted)])

RECURSIVE SortRows(_)
SortRows(rows) ==
    IF rows = <<>> THEN <<>>
    ELSE InsertRow(SortRows(SubSeq(rows, 1, Len(rows) - 1)), rows[Len(rows)])

\* rows[:limit]
Take(rows, limit) ==
    IF limit >= 0 THEN SubSeq(rows, 1, Min(limit, Len(rows)))
    ELSE SubSeq(rows, 1, Max(0, Len(rows) + limit))

\* the characters of the shortest "- name - address - d.d km\nmap_link" line
RowChars == 107

NoPharmacies ==
    Frag("No pharmacies found within 8 km. Try a different ZIP or larger radius.")
ListHeader == Frag("Here are pharmacies near you (sorted by distance):")

\* the rows of format_pharmacy_list before sorting: one per element with coordinates
RECURSIVE Rows(_, _, _)
Rows(lat, lon, elements) ==
    IF elements = <<>> THEN <<>>
    ELSE LET el     == elements[1]
             coords == _element_coords(el)
         IN  IF coords = None THEN Rows(lat, lon, Tail(elements))
             ELSE <<[km |-> haversine_km(lat, lon, coords), el |-> el.id]>>
                  \o Rows(lat, lon, Tail(elements))

RowLine(r) == [w |-> r.el, d |-> <<r.km>>, sp |-> 1, n |-> RowChars]

\* format_pharmacy_list without the check for no rows: a header with no entries
format_pharmacy_list_bare(lat, lon, elements, limit) ==
    LET rows  == SortRows(Rows(lat, lon, elements))
        shown == Take(rows, limit)
    IN  <<ListHeader>> \o [i \in 1 .. Len(shown) |-> RowLine(shown[i])]

format_pharmacy_list(lat, lon, elements, limit) ==
    LET rows  == SortRows(Rows(lat, lon, elements))
        shown == Take(rows, limit)
    IN  IF rows = <<>> THEN <<NoPharmacies>>
        ELSE <<ListHeader>> \o [i \in 1 .. Len(shown) |-> RowLine(shown[i])]

----------------------------------------------------------------------------
(* The session dictionary and the history buffer *)

Get(s, key, default) == IF key \in DOMAIN s THEN s[key] ELSE default
Put(s, key, value)   == [k \in DOMAIN s \cup {key} |-> IF k = key THEN value ELSE s[k]]
Pop(s, key)          == [k \in DOMAIN s \ {key} |-> s[k]]
EmptySession         == [k \in {} |-> 0]

Ellipsis == [w |-> "ELLIPSIS", d |-> <<>>, sp |-> 0, n |-> 1]

_truncate(text, max_len) ==
    IF TextLen(text) <= max_len THEN text
    ELSE Slice(text, max_len) \o <<Ellipsis>>

\* history[-k:]
LastItems(h, k) == IF Len(h) > k THEN SubSeq(h, Len(h) - k + 1, Len(h)) ELSE h

\* append_history without the trim to MAX_HISTORY_ITEMS
append_history_untrimmed(s, user_message, reply_text) ==
    LET history == Get(s, "history", <<>>)
        grown   == history
                   \o <<[role |-> "user",  text |-> _truncate(user_message, MAX_HISTORY_CHARS)]>>
                   \o <<[role |-> "model", text |-> _truncate(reply_text, MAX_HISTORY_CHARS)]>>
    IN  Put(s, "history", grown)

\* append_history that trims to the first MAX_HISTORY_ITEMS turns
append_history_keep_first(s, user_message, reply_text) ==
    LET history == Get(s, "history", <<>>)
        grown   == history
                   \o <<[role |-> "user",  text |-> _truncate(user_message, MAX_HISTORY_CHARS)]>>
                   \o <<[role |-> "model", text |-> _truncate(reply_text, MAX_HISTORY_CHARS)]>>
        kept    == IF Len(grown) > MAX_HISTORY_ITEMS
                   THEN SubSeq(grown, 1, MAX_HISTORY_ITEMS)
                   ELSE grown
    IN  Put(s, "history", kept)

\* append_history that trims to one turn less than MAX_HISTORY_ITEMS
append_history_odd_window(s, user_message, reply_text) ==
    LET history == Get(s, "history", <<>>)
        grown   == history
                   \o <<[role |-> "user",  text |-> _truncate(user_message, MAX_HISTORY_CHARS)]>>
                   \o <<[role |-> "model", text |-> _truncate(reply_text, MAX_HISTORY_CHARS)]>>
        kept    == IF Len(grown) > MAX_HISTORY_ITEMS - 1
                   THEN LastItems(grown, MAX_HISTORY_ITEMS - 1)
                   ELSE grown
    IN  Put(s, "history", kept)

\* append_history: the session after it
append_history(s, user_message, reply_text) ==
    LET history == Get(s, "history", <<>>)
        grown   == history
                   \o <<[role |-> "user",  text |-> _truncate(user_message, MAX_HISTORY_CHARS)]>>
                   \o <<[role |-> "model", text |-> _truncate(reply_text, MAX_HISTORY_CHARS)]>>
        kept    == IF Len(grown) > MAX_HISTORY_ITEMS
                   THEN LastItems(grown, MAX_HISTORY_ITEMS)
                   ELSE grown
    IN  Put(s, "history", kept)

----------------------------------------------------------------------------
(* Health helpers *)

\* the answer of a service that the request did not consult
Unasked == [asked |-> FALSE]

\* hostname == allowed or hostname.endswith("." + allowed), on the labels
IsSuffix(allowed, hostname) ==
    /\ Len(allowed) <= Len(hostname)
    /\ SubSeq(hostname, Len(hostname) - Len(allowed) + 1, Len(hostname)) = allowed

\* a link is the labels of its host name, <<>> for no link
_is_allowed_domain(url) ==
    IF url = <<>> THEN FALSE
    ELSE IF HEALTH_ALLOWED_DOMAINS = {} THEN TRUE
    ELSE \E allowed \in HEALTH_ALLOWED_DOMAINS : IsSuffix(allowed, url)

\* the items of the answer that have a title and a link of an allowed domain
RECURSIVE FilterItems(_)
FilterItems(items) ==
    IF items = <<>> THEN <<>>
    ELSE LET it == items[1]
         IN  IF it.link = <<>> \/ it.title = "" THEN FilterItems(Tail(items))
             ELSE IF ~ _is_allowed_domain(it.link) THEN FilterItems(Tail(items))
             ELSE <<it>> \o FilterItems(Tail(items))

\* cse_search: [] without configuration or on an error
cse_search(query, google) ==
    IF ~ google.configured THEN <<>>
    ELSE IF google.err THEN <<>>
    ELSE FilterItems(google.items)

\* answer_health_with_cse that sends the prompt a second time when the first
\* send_message fails
answer_health_with_cse_retry(user_question, google, gemini) ==
    LET results == cse_search(user_question, google)
        searched == IF google.configured THEN <<"cse">> ELSE <<>>
        none(called, g) == [ret |-> "none", text |-> <<>>, calls |-> called, gemini |-> g]
    IN  IF results = <<>> THEN none(searched, Unasked)
        ELSE IF ~ gemini.key
        THEN [ret |-> "raise", text |-> <<>>, calls |-> searched, gemini |-> gemini]
        ELSE IF gemini.err THEN none(searched \o <<"llm", "llm">>, gemini)
        ELSE LET bot_text == Strip(gemini.text)
             IN  IF bot_text = <<>> THEN none(searched \o <<"llm">>, gemini)
                 ELSE [ret |-> "text", text |-> bot_text,
                       calls |-> searched \o <<"llm">>, gemini |-> gemini]

\* answer_health_with_cse: ret is "text" (an answer), "none" (None) or "raise"
\* (get_model() raised: GEMINI_API_KEY is not set); calls are the services
\* called, gemini the model's answer if the code got as far as get_model()
answer_health_with_cse(user_question, google, gemini) ==
    LET results == cse_search(user_question, google)
        searched == IF google.configured THEN <<"cse">> ELSE <<>>
        none(called, g) == [ret |-> "none", text |-> <<>>, calls |-> called, gemini |-> g]
    IN  IF results = <<>> THEN none(searched, Unasked)
        ELSE IF ~ gemini.key
        THEN [ret |-> "raise", text |-> <<>>, calls |-> searched, gemini |-> gemini]
        ELSE IF gemini.err THEN none(searched \o <<"llm">>, gemini)
        ELSE LET bot_text == Strip(gemini.text)
             IN  IF bot_text = <<>> THEN none(searched \o <<"llm">>, gemini)
                 ELSE [ret |-> "text", text |-> bot_text,
                       calls |-> searched \o <<"llm">>, gemini |-> gemini]

----------------------------------------------------------------------------
(* POST /api/chat *)

Reply(kind, text) == [status |-> 200, kind |-> kind, text |-> text]
Fail(status, kind, text) == [status |-> status, kind |-> kind, text |-> text]

NoAnswers ==
    [nominatim |-> Unasked, overpass |-> Unasked, google |-> Unasked, gemini |-> Unasked]

\* what one request leaves: the session, the response, the services called in
\* order, the limit given to format_pharmacy_list and the answers consulted
Result(s, resp, called, limit, ans) ==
    [session |-> s, response |-> resp, calls |-> called, used_limit |-> limit,
     answers |-> ans]

MessageRequired == Frag("Message is required")
ZipReprompt     == Frag("Please enter a valid 5-digit ZIP code (e.g., 10001).")
ZipNotFound     == Frag("Sorry, I could not find that ZIP code. Please try another.")
ZipPrompt       == Frag("Please enter your 5-digit ZIP code to find nearby pharmacies.")
Decline ==
    Frag("I can't answer that health question based on the approved sources. Please consult a qualified healthcare professional.")
\* str(exc) of a failed send, and the body of an unhandled exception
UpstreamError   == Frag("str(exc)")
ServerError     == Frag("Internal Server Error")

\* looks_like_pharmacy_request that forgets the pharmacy words
looks_like_pharmacy_request_followup_only(user_message) ==
    FOLLOWUP_WORDS_RE(user_message)

looks_like_pharmacy_request(user_message) ==
    PHARM_INTENT_RE(user_message) \/ FOLLOWUP_WORDS_RE(user_message)

\* reject_branch that also gives up the ZIP dialogue
reject_branch_resets(s) ==
    Result(Pop(Pop(s, "awaiting_zip"), "pharmacy_limit"),
           Fail(400, "message_required", <<MessageRequired>>), <<>>, 0, NoAnswers)

\* an empty message: 400
reject_branch(s) ==
    Result(s, Fail(400, "message_required", <<MessageRequired>>), <<>>, 0, NoAnswers)

\* reprompt_branch that logs the attempt
reprompt_branch_logged(s, user_message) ==
    Result(append_history(s, user_message, <<ZipReprompt>>),
           Reply("reprompt", <<ZipReprompt>>), <<>>, 0, NoAnswers)

\* reprompt_branch that stops awaiting after a message without a ZIP
reprompt_branch_gives_up(s, user_message) ==
    Result(Pop(Pop(s, "awaiting_zip"), "pharmacy_limit"),
           Reply("reprompt", <<ZipReprompt>>), <<>>, 0, NoAnswers)

\* session["awaiting_zip"] is "pharmacies" and the message has no ZIP
reprompt_branch(s, user_message) ==
    Result(s, Reply("reprompt", <<ZipReprompt>>), <<>>, 0, NoAnswers)

\* awaiting_zip_branch that counts again in the message that carries the ZIP
awaiting_zip_branch_recount(s, user_message, zip_code, nominatim, overpass) ==
    LET coords == geocode_zip(zip_code, nominatim)
    IN  IF coords = None
        THEN Result(Pop(Pop(s, "awaiting_zip"), "pharmacy_limit"),
                    Reply("zip_not_found", <<ZipNotFound>>), <<"geocode">>, 0,
                    [NoAnswers EXCEPT !.nominatim = nominatim])
        ELSE LET elements   == overpass_find_pharmacies(coords[1], coords[2], overpass)
                 limit      == extract_requested_count(user_message, 10)
                 reply_text == format_pharmacy_list(coords[1], coords[2], elements, limit)
                 popped     == Pop(Pop(s, "pharmacy_limit"), "awaiting_zip")
             IN  Result(append_history(popped, user_message, reply_text),
                        Reply("poi", reply_text), <<"geocode", "overpass">>, limit,
                        [NoAnswers EXCEPT !.nominatim = nominatim, !.overpass = overpass])

\* awaiting_zip_branch that keeps waiting after a ZIP that is not found
awaiting_zip_branch_sticky(s, user_message, zip_code, nominatim, overpass) ==
    LET coords == geocode_zip(zip_code, nominatim)
    IN  IF coords = None
        THEN Result(s, Reply("zip_not_found", <<ZipNotFound>>), <<"geocode">>, 0,
                    [NoAnswers EXCEPT !.nominatim = nominatim])
        ELSE LET elements   == overpass_find_pharmacies(coords[1], coords[2], overpass)
                 limit      == Get(s, "pharmacy_limit", 10)
                 reply_text == format_pharmacy_list(coords[1], coords[2], elements, limit)
                 popped     == Pop(Pop(s, "pharmacy_limit"), "awaiting_zip")
             IN  Result(append_history(popped, user_message, reply_text),
                        Reply("poi", reply_text), <<"geocode", "overpass">>, limit,
                        [NoAnswers EXCEPT !.nominatim = nominatim, !.overpass = overpass])

\* awaiting_zip_branch that reads pharmacy_limit with get instead of pop
awaiting_zip_branch_keeps_limit(s, user_message, zip_code, nominatim, overpass) ==
    LET coords == geocode_zip(zip_code, nominatim)
    IN  IF coords = None
        THEN Result(Pop(Pop(s, "awaiting_zip"), "pharmacy_limit"),
                    Reply("zip_not_found", <<ZipNotFound>>), <<"geocode">>, 0,
                    [NoAnswers EXCEPT !.nominatim = nominatim])
        ELSE LET elements   == overpass_find_pharmacies(coords[1], coords[2], overpass)
                 limit      == Get(s, "pharmacy_limit", 10)
                 reply_text == format_pharmacy_list(coords[1], coords[2], elements, limit)
                 popped     == Pop(s, "awaiting_zip")
             IN  Result(append_history(popped, user_message, reply_text),
                        Reply("poi", reply_text), <<"geocode", "overpass">>, limit,
                        [NoAnswers EXCEPT !.nominatim = nominatim, !.overpass = overpass])

\* session["awaiting_zip"] is "pharmacies" and the message has a ZIP
awaiting_zip_branch(s, user_message, zip_code, nominatim, overpass) ==
    LET coords == geocode_zip(zip_code, nominatim)
    IN  IF coords = None
        THEN Result(Pop(Pop(s, "awaiting_zip"), "pharmacy_limit"),
                    Reply("zip_not_found", <<ZipNotFound>>), <<"geocode">>, 0,
                    [NoAnswers EXCEPT !.nominatim = nominatim])
        ELSE LET elements   == overpass_find_pharmacies(coords[1], coords[2], overpass)
                 limit      == Get(s, "pharmacy_limit", 10)
                 reply_text == format_pharmacy_list(coords[1], coords[2], elements, limit)
                 popped     == Pop(Pop(s, "pharmacy_limit"), "awaiting_zip")
             IN  Result(append_history(popped, user_message, reply_text),
                        Reply("poi", reply_text), <<"geocode", "overpass">>, limit,
                        [NoAnswers EXCEPT !.nominatim = nominatim, !.overpass = overpass])

\* one_shot_branch that always lists the default number
one_shot_branch_default(s, user_message, zip_code, nominatim, overpass) ==
    LET coords == geocode_zip(zip_code, nominatim)
    IN  IF coords = None
        THEN Result(s, Reply("zip_not_found", <<ZipNotFound>>), <<"geocode">>, 0,
                    [NoAnswers EXCEPT !.nominatim = nominatim])
        ELSE LET limit      == 10
                 elements   == overpass_find_pharmacies(coords[1], coords[2], overpass)
                 reply_text == format_pharmacy_list(coords[1], coords[2], elements, limit)
             IN  Result(append_history(s, user_message, reply_text),
                        Reply("poi", reply_text), <<"geocode", "overpass">>, limit,
                        [NoAnswers EXCEPT !.nominatim = nominatim, !.overpass = overpass])

\* the one-shot branch: a pharmacy request that carries its ZIP
one_shot_branch(s, user_message, zip_code, nominatim, overpass) ==
    LET coords == geocode_zip(zip_code, nominatim)
    IN  IF coords = None
        THEN Result(s, Reply("zip_not_found", <<ZipNotFound>>), <<"geocode">>, 0,
                    [NoAnswers EXCEPT !.nominatim = nominatim])
        ELSE LET limit      == extract_requested_count(user_message, 10)
                 elements   == overpass_find_pharmacies(coords[1], coords[2], overpass)
                 reply_text == format_pharmacy_list(coords[1], coords[2], elements, limit)
             IN  Result(append_history(s, user_message, reply_text),
                        Reply("poi", reply_text), <<"geocode", "overpass">>, limit,
                        [NoAnswers EXCEPT !.nominatim = nominatim, !.overpass = overpass])

\* ask_zip_branch that does not look for a count
ask_zip_branch_default(s, user_message) ==
    Result(Put(Put(s, "awaiting_zip", "pharmacies"), "pharmacy_limit", 10),
           Reply("ask_zip", <<ZipPrompt>>), <<>>, 0, NoAnswers)

\* a pharmacy request without a ZIP: ask for it
ask_zip_branch(s, user_message) ==
    Result(Put(Put(s, "awaiting_zip", "pharmacies"),
               "pharmacy_limit", extract_requested_count(user_message, 10)),
           Reply("ask_zip", <<ZipPrompt>>), <<>>, 0, NoAnswers)

\* health_branch that does not log a decline
health_branch_unlogged(s, user_message, google, gemini) ==
    LET answer == answer_health_with_cse(user_message, google, gemini)
        ans    == [NoAnswers EXCEPT !.google = google, !.gemini = answer.gemini]
    IN  IF answer.ret = "raise"
        THEN Result(s, Fail(500, "exception", <<ServerError>>), answer.calls, 0, ans)
        ELSE IF answer.ret = "text"
        THEN Result(append_history(s, user_message, answer.text),
                    Reply("health", answer.text), answer.calls, 0, ans)
        ELSE Result(s, Reply("decline", <<Decline>>), answer.calls, 0, ans)

\* a health question: the search-grounded answer, or the decline
health_branch(s, user_message, google, gemini) ==
    LET answer == answer_health_with_cse(user_message, google, gemini)
        ans    == [NoAnswers EXCEPT !.google = google, !.gemini = answer.gemini]
    IN  IF answer.ret = "raise"
        THEN Result(s, Fail(500, "exception", <<ServerError>>), answer.calls, 0, ans)
        ELSE IF answer.ret = "text"
        THEN Result(append_history(s, user_message, answer.text),
                    Reply("health", answer.text), answer.calls, 0, ans)
        ELSE Result(append_history(s, user_message, <<Decline>>),
                    Reply("decline", <<Decline>>), answer.calls, 0, ans)

\* the model's context: history[-4:]
short_history(s) == LastItems(Get(s, "history", <<>>), 4)

\* the default branch: Gemini with the short history
default_branch(s, user_message, gemini) ==
    LET ans == [NoAnswers EXCEPT !.gemini = gemini]
    IN  IF ~ gemini.key
        THEN Result(s, Fail(500, "exception", <<ServerError>>), <<>>, 0, ans)
        ELSE IF gemini.err
        THEN Result(s, Fail(500, "error", <<UpstreamError>>), <<"llm">>, 0, ans)
        ELSE Result(append_history(s, user_message, gemini.text),
                    Reply("chat", gemini.text), <<"llm">>, 0, ans)

----------------------------------------------------------------------------
(* The inputs: the messages sent and the answers of the external services *)

\* a text from words and runs of digits, single spaces between them
Say(t) == <<[t[1] EXCEPT !.sp = 0]>> \o Tail(t)

\* a run of n letters that is no word of any vocabulary
Filler(n) == [w |-> "lorem", d |-> <<>>, sp |-> 1, n |-> n]

\* the longest run of white space sent or generated
MaxBlank == 2

RawMessages ==
    { <<>>,                                                     \* "" or no message
      <<Blank(MaxBlank)>>,                                      \* white space only
      Say(<<Word("pharmacy")>>),
      Say(<<Word("pharmacy"), Word("fever")>>),
      Say(<<Digits(<<0>>), Word("nearest")>>),
      <<Blank(1)>> \o Say(<<Digits(<<9, 9>>), Word("drug"), Word("store"),
                            Digits(<<1, 0, 0, 0, 1>>)>>),
      Say(<<Word("fever"), Filler(MAX_HISTORY_CHARS)>>),
      Say(<<Word("hello")>>) }

Place == [lat |-> 33, lon |-> -117]

NominatimAnswers ==
    { [err |-> TRUE,  items |-> <<>>],
      [err |-> FALSE, items |-> <<>>],
      [err |-> FALSE, items |-> <<Place>>] }

ElA == [id |-> "a", pos |-> "node",   km |-> 3]
ElB == [id |-> "b", pos |-> "center", km |-> 1]
ElC == [id |-> "c", pos |-> "node",   km |-> 1]
ElD == [id |-> "d", pos |-> "none",   km |-> 0]

OverpassAnswers ==
    { [err |-> TRUE,  elements |-> <<>>],
      [err |-> FALSE, elements |-> <<>>],
      [err |-> FALSE, elements |-> <<ElD>>],
      [err |-> FALSE, elements |-> <<ElA, ElB, ElD, ElC>>] }

GoogleAnswers ==
    { [configured |-> FALSE, err |-> FALSE, items |-> <<>>],
      [configured |-> TRUE,  err |-> TRUE,  items |-> <<>>],
      [configured |-> TRUE,  err |-> FALSE, items |-> <<>>],
      [configured |-> TRUE,  err |-> FALSE,
       items |-> <<[title |-> "Fever", link |-> <<"example", "com">>],
                   [title |-> "",      link |-> <<"who", "int">>]>>],
      [configured |-> TRUE,  err |-> FALSE,
       items |-> <<[title |-> "Fever", link |-> <<"www", "who", "int">>]>>] }

LongAnswer  == Say(<<Word("rest"), Filler(MAX_HISTORY_CHARS), Blank(1)>>)

GeminiAnswers ==
    { [key |-> FALSE, err |-> FALSE, text |-> <<>>],
      [key |-> TRUE,  err |-> TRUE,  text |-> <<>>],
      [key |-> TRUE,  err |-> FALSE, text |-> <<Blank(MaxBlank)>>],
      [key |-> TRUE,  err |-> FALSE, text |-> LongAnswer] }

----------------------------------------------------------------------------
(* chat_api: the possible results of one request in session s *)

chat_api_results(s, raw) ==
    LET user_message == Strip(raw)
        awaiting     == Get(s, "awaiting_zip", "")
        m_zip        == ZIP_RE(user_message)
    IN  IF user_message = <<>>
        THEN { reject_branch(s) }
        ELSE IF awaiting = "pharmacies"
        THEN IF m_zip = 0
             THEN { reprompt_branch(s, user_message) }
             ELSE { awaiting_zip_branch(s, user_message, user_message[m_zip].d, n, o) :
                        n \in NominatimAnswers, o \in OverpassAnswers }
        ELSE IF looks_like_pharmacy_request(user_message) /\ m_zip # 0
        THEN { one_shot_branch(s, user_message, user_message[m_zip].d, n, o) :
                   n \in NominatimAnswers, o \in OverpassAnswers }
        ELSE IF looks_like_pharmacy_request(user_message)
        THEN { ask_zip_branch(s, user_message) }
        ELSE IF is_health_question(user_message)
        THEN { health_branch(s, user_message, g, l) :
                   g \in GoogleAnswers, l \in GeminiAnswers }
        ELSE { default_branch(s, user_message, l) : l \in GeminiAnswers }

chat_api ==
    \E raw \in RawMessages :
        \E r \in chat_api_results(session, raw) :
            /\ session'    = r.session
            /\ request'    = [route |-> "chat", message |-> raw,
                               awaiting |-> Get(session, "awaiting_zip", "")]
            /\ response'   = r.response
            /\ calls'      = r.calls
            /\ used_limit' = r.used_limit
            /\ answers'    = r.answers

(* reset_chat that forgets to pop "pharmacy_limit" *)
reset_chat_keeps_limit ==
    /\ session'    = Pop(Pop(session, "history"), "awaiting_zip")
    /\ request'    = [route |-> "reset", message |-> <<>>,
                       awaiting |-> Get(session, "awaiting_zip", "")]
    /\ response'   = Reply("ok", <<>>)
    /\ calls'      = <<>>
    /\ used_limit' = 0
    /\ answers'    = NoAnswers

(* POST /api/reset *)
reset_chat ==
    /\ session'    = Pop(Pop(Pop(session, "history"), "awaiting_zip"), "pharmacy_limit")
    /\ request'    = [route |-> "reset", message |-> <<>>,
                       awaiting |-> Get(session, "awaiting_zip", "")]
    /\ response'   = Reply("ok", <<>>)
    /\ calls'      = <<>>
    /\ used_limit' = 0
    /\ answers'    = NoAnswers

Init ==
    /\ session    = EmptySession
    /\ request    = [route |-> "none", message |-> <<>>, awaiting |-> ""]
    /\ response   = Reply("none", <<>>)
    /\ calls      = <<>>
    /\ used_limit = 0
    /\ answers    = NoAnswers

Next == chat_api \/ reset_chat

Spec == Init /\ [][Next]_vars

----------------------------------------------------------------------------
(* The ranker alone: format_pharmacy_list applied to every small element list *)

MaxElems == 3
MaxKm    == 1

ElementIds == <<"e1", "e2", "e3", "e4", "e5">>

\* every list of at most MaxElems elements, the i-th with id ElementIds[i], a
\* position of either kind or none, and a distance of 0 .. MaxKm
ElementLists ==
    UNION { { [i \in 1 .. n |-> [id |-> ElementIds[i], pos |-> f[i][1], km |-> f[i][2]]] :
                f \in [1 .. n -> {"node", "center", "none"} \X (0 .. MaxKm)] } :
            n \in 0 .. MaxElems }

\* the limits extract_requested_count can return
Limits == 1 .. 20

InitRank ==
    /\ session    = EmptySession
    /\ request    = [route |-> "rank", message |-> <<>>, awaiting |-> ""]
    /\ response   = Reply("none", <<>>)
    /\ calls      = <<>>
    /\ used_limit \in Limits
    /\ answers    \in { [NoAnswers EXCEPT !.overpass = [err |-> FALSE, elements |-> els]] :
                            els \in ElementLists }

rank ==
    /\ response.kind = "none"
    /\ response' = Reply("poi", format_pharmacy_list(Place.lat, Place.lon,
                                                     answers.overpass.elements, used_limit))
    /\ UNCHANGED <<session, request, calls, used_limit, answers>>

SpecRank == InitRank /\ [][rank]_vars

----------------------------------------------------------------------------
(* Properties *)

Awaiting(s) == Get(s, "awaiting_zip", "") = "pharmacies"
History(s)  == Get(s, "history", <<>>)
HasLimit(s) == "pharmacy_limit" \in DOMAIN s

\* the step is a chat request with a non-empty message
Chat == request'.route = "chat" /\ Strip(request'.message) # <<>>
\* its message as the router sees it
UserMessage == Strip(request'.message)
HasZip(t)   == \E i \in 1 .. Len(t) : Len(t[i].d) = 5
HasIntent(t) == PHARM_INTENT_RE(t) \/ FOLLOWUP_WORDS_RE(t)

\* the ZIP of the step's message geocodes: Nominatim answered with an item
Geocoded == answers'.nominatim # Unasked
            /\ ~ answers'.nominatim.err /\ answers'.nominatim.items # <<>>
\* the elements the step's proximity search returned
Elements == IF answers'.overpass = Unasked \/ answers'.overpass.err
            THEN <<>> ELSE answers'.overpass.elements

\* h2 is h with the user/model pair of this exchange appended (oldest turns dropped)
Appended(h, h2, user_text, reply_text) ==
    h2 = LastItems(h \o <<[role |-> "user",  text |-> _truncate(user_text, MAX_HISTORY_CHARS)],
                          [role |-> "model", text |-> _truncate(reply_text, MAX_HISTORY_CHARS)]>>,
                   MAX_HISTORY_ITEMS)

\* C1: whenever the session is awaiting a ZIP, a pharmacy_limit is stored in it
\* and is an integer in [1, 20].
C1_AwaitingHasLimit ==
    Awaiting(session) => /\ HasLimit(session)
                         /\ session["pharmacy_limit"] \in 1 .. 20

\* C1 witness: awaiting with the limit 1 that the message's count 0 was clamped to
C1_Witness ==
    /\ Awaiting(session)
    /\ response.kind = "ask_zip"
    /\ COUNT_RE(request.message) # 0
    /\ IntOf(request.message[COUNT_RE(request.message)].d) = 0
    /\ session["pharmacy_limit"] = 1

\* C2: while awaiting a ZIP, a (non-empty) message without a ZIP gets the
\* re-prompt as a normal reply and leaves the whole session (mode, limit and
\* transcript) unchanged, so the session is still awaiting after any number of them.
C2_RepromptKeepsState ==
    [][ (Awaiting(session) /\ Chat /\ ~ HasZip(UserMessage))
        => /\ response' = Reply("reprompt", <<ZipReprompt>>)
           /\ session' = session
           /\ Awaiting(session') ]_vars

\* C2 witness: a re-prompt given while the ZIP was awaited; the session is
\* still awaiting, with its limit and a non-empty transcript
C2_Witness ==
    /\ request.route = "chat" /\ request.awaiting = "pharmacies"
    /\ response.kind = "reprompt"
    /\ Awaiting(session) /\ HasLimit(session)
    /\ History(session) # <<>>

\* C3: with no ZIP awaited, a message with pharmacy or follow-up intent and no
\* ZIP makes the session await a ZIP, stores the count extracted from the message
\* (10 without one), replies with the ZIP prompt and leaves the transcript as it
\* was; a message with a ZIP that geocodes, sent while the ZIP is awaited, is
\* answered with the pharmacy listing made with the stored limit (the list of the
\* nearest ones whenever the search returned an element with coordinates) and
\* the session awaits no ZIP any more.
C3_AskThenList ==
    [][ /\ (~ Awaiting(session) /\ Chat /\ HasIntent(UserMessage) /\ ~ HasZip(UserMessage))
           => /\ Awaiting(session')
              /\ HasLimit(session')
              /\ session'["pharmacy_limit"] = extract_requested_count(UserMessage, 10)
              /\ response' = Reply("ask_zip", <<ZipPrompt>>)
              /\ History(session') = History(session)
        /\ (Awaiting(session) /\ Chat /\ HasZip(UserMessage) /\ Geocoded)
           => /\ response'.status = 200 /\ response'.kind = "poi"
              /\ response'.text = format_pharmacy_list(Place.lat, Place.lon, Elements,
                                                       session["pharmacy_limit"])
              /\ (\E i \in 1 .. Len(Elements) : Elements[i].pos # "none")
                 => response'.text[1] = ListHeader /\ Len(response'.text) > 1
              /\ ~ Awaiting(session') ]_vars

\* C3 witness: the listing given for the ZIP that was asked for, one row long
\* since the request "0 nearest" stored the limit 1
C3_Witness ==
    /\ request.route = "chat" /\ request.awaiting = "pharmacies"
    /\ response.kind = "poi" /\ used_limit = 1
    /\ response.text[1] = ListHeader /\ Len(response.text) = 2
    /\ ~ Awaiting(session)

\* C4: while a ZIP is awaited, a message with a ZIP that geocodes runs the
\* pharmacy pipeline with the stored pharmacy_limit (not with a count of this
\* message), stops awaiting, removes pharmacy_limit and appends exactly the
\* user/model pair of this exchange to the transcript.
C4_AwaitedZipUsesStoredLimit ==
    [][ (Awaiting(session) /\ Chat /\ HasZip(UserMessage) /\ Geocoded)
        => /\ calls' = <<"geocode", "overpass">>
           /\ used_limit' = session["pharmacy_limit"]
           /\ response' = Reply("poi", format_pharmacy_list(Place.lat, Place.lon, Elements,
                                                            session["pharmacy_limit"]))
           /\ ~ Awaiting(session') /\ ~ HasLimit(session')
           /\ Appended(History(session), History(session'), UserMessage, response'.text) ]_vars

\* C4 witness: the stored limit 10 was used although the message says 99
\* (which alone would give 20), and the pair is the end of the transcript
C4_Witness ==
    /\ request.route = "chat" /\ request.awaiting = "pharmacies"
    /\ response.kind = "poi" /\ used_limit = 10
    /\ extract_requested_count(Strip(request.message), 10) = 20
    /\ ~ Awaiting(session) /\ ~ HasLimit(session)
    /\ Len(History(session)) >= 4
    /\ History(session)[Len(History(session))].role = "model"

\* C5: while a ZIP is awaited, a message with a ZIP that does not geocode gets
\* the "ZIP not found" reply as a normal response, stops awaiting, removes
\* pharmacy_limit and leaves the transcript unchanged.
C5_AwaitedZipNotFound ==
    [][ (Awaiting(session) /\ Chat /\ HasZip(UserMessage) /\ ~ Geocoded)
        => /\ response' = Reply("zip_not_found", <<ZipNotFound>>)
           /\ answers'.nominatim # Unasked /\ calls' = <<"geocode">>
           /\ ~ Awaiting(session') /\ ~ HasLimit(session')
           /\ History(session') = History(session) ]_vars

\* C5 witness: "ZIP not found" after a transport error of the geocoder, in a
\* session that awaited the ZIP and has a transcript
C5_Witness ==
    /\ request.route = "chat" /\ request.awaiting = "pharmacies"
    /\ response.kind = "zip_not_found"
    /\ answers.nominatim # Unasked /\ answers.nominatim.err
    /\ ~ Awaiting(session) /\ ~ HasLimit(session)
    /\ History(session) # <<>>

\* C6 as stated: with no ZIP awaited, every message with pharmacy or follow-up
\* intent and a ZIP runs the pharmacy pipeline with the count of the message,
\* appends the exchange and leaves the session awaiting nothing, without limit.
C6_OneShotAlways ==
    [][ (~ Awaiting(session) /\ Chat /\ HasIntent(UserMessage) /\ HasZip(UserMessage))
        => /\ response'.kind = "poi"
           /\ used_limit' = extract_requested_count(UserMessage, 10)
           /\ Appended(History(session), History(session'), UserMessage, response'.text)
           /\ ~ Awaiting(session') /\ ~ HasLimit(session') ]_vars

\* C6 amended: it does so when the ZIP geocodes; when the ZIP does not geocode
\* the reply is "ZIP not found", nothing is appended, and the session still
\* awaits nothing and stores no limit.
C6_OneShot ==
    [][ (~ Awaiting(session) /\ Chat /\ HasIntent(UserMessage) /\ HasZip(UserMessage))
        => /\ ~ Awaiting(session') /\ ~ HasLimit(session')
           /\ Geocoded
              => /\ calls' = <<"geocode", "overpass">>
                 /\ used_limit' = extract_requested_count(UserMessage, 10)
                 /\ response' = Reply("poi", format_pharmacy_list(Place.lat, Place.lon, Elements,
                                          extract_requested_count(UserMessage, 10)))
                 /\ Appended(History(session), History(session'), UserMessage, response'.text)
           /\ ~ Geocoded
              => /\ response' = Reply("zip_not_found", <<ZipNotFound>>)
                 /\ session' = session ]_vars

\* C6 witness: a one-shot listing with the limit 20 that the message's 99 is
\* clamped to
C6_Witness ==
    /\ request.route = "chat" /\ request.awaiting = ""
    /\ response.kind = "poi" /\ used_limit = 20
    /\ response.text[1] = ListHeader /\ Len(response.text) = 4
    /\ ~ Awaiting(session) /\ ~ HasLimit(session)
    /\ History(session)[Len(History(session))].role = "model"

\* C7: in every session state, a message that matches the pharmacy vocabulary
\* and the health vocabulary is answered by the pharmacy path or by the ZIP
\* dialogue, and neither the web search nor the language model is consulted.
C7_PharmacyBeforeHealth ==
    [][ (Chat /\ PHARM_INTENT_RE(UserMessage) /\ HEALTH_INTENT_RE(UserMessage))
        => /\ response'.kind \in {"poi", "zip_not_found", "ask_zip", "reprompt"}
           /\ answers'.google = Unasked /\ answers'.gemini = Unasked
           /\ \A i \in 1 .. Len(calls') : calls'[i] \in {"geocode", "overpass"} ]_vars

\* C7 witness: "pharmacy fever" was answered with the ZIP prompt
C7_Witness ==
    /\ request.route = "chat" /\ request.awaiting = ""
    /\ PHARM_INTENT_RE(Strip(request.message))
    /\ HEALTH_INTENT_RE(Strip(request.message))
    /\ ~ HasZip(Strip(request.message))
    /\ response.kind = "ask_zip"

\* C8 as stated: whenever the language model fails in a request that delegates
\* to it (the health branch or the default branch), the response is an error.
C8_ModelFailureIsError ==
    [][ (Chat /\ answers'.gemini # Unasked
              /\ (~ answers'.gemini.key \/ answers'.gemini.err))
        => response'.status # 200 ]_vars

\* C9: with no ZIP awaited, a health question for which the answerer has no
\* answer (no usable search result) gets the fixed decline as a normal reply,
\* the question and the decline are appended to the transcript, and no ZIP
\* is awaited afterwards.
C9_DeclineIsLogged ==
    [][ (~ Awaiting(session) /\ Chat /\ ~ HasIntent(UserMessage)
           /\ HEALTH_INTENT_RE(UserMessage))
        => /\ answers'.google # Unasked
           /\ cse_search(UserMessage, answers'.google) = <<>>
              => /\ response' = Reply("decline", <<Decline>>)
                 /\ answers'.gemini = Unasked
                 /\ Appended(History(session), History(session'), UserMessage, <<Decline>>)
                 /\ ~ Awaiting(session') ]_vars

\* C9 witness: the decline after a search whose only results are of a domain
\* that is not allowed or have no title, logged as the last turn
C9_Witness ==
    /\ request.route = "chat" /\ response.kind = "decline"
    /\ answers.google # Unasked /\ answers.google.items # <<>>
    /\ answers.gemini = Unasked
    /\ History(session)[Len(History(session))].text = <<Decline>>
    /\ ~ Awaiting(session)

\* C10: the transcript never holds more than MAX_HISTORY_ITEMS (8) turns.
C10_HistoryBounded == Len(History(session)) <= MAX_HISTORY_ITEMS

\* C10 witness: a full transcript whose last pair was appended by the last
\* request and differs from the pair before it
C10_Witness ==
    /\ Len(History(session)) = MAX_HISTORY_ITEMS
    /\ request.route = "chat"
    /\ response.kind \in {"poi", "health", "decline", "chat"}
    /\ History(session)[MAX_HISTORY_ITEMS].text = _truncate(response.text, MAX_HISTORY_CHARS)
    /\ History(session)[MAX_HISTORY_ITEMS - 2].text # History(session)[MAX_HISTORY_ITEMS].text

\* C11 as stated: no turn text stored in the transcript is longer than
\* MAX_HISTORY_CHARS (200) characters.
C11_TurnTextWithinBudget ==
    \A i \in 1 .. Len(History(session)) :
        TextLen(History(session)[i].text) <= MAX_HISTORY_CHARS

\* C12: a reset leaves the session without "awaiting_zip", "pharmacy_limit" and
\* "history", whatever it held; a reset that follows a reset changes nothing.
C12_ResetClears ==
    [][ request'.route = "reset"
        => /\ ~ Awaiting(session') /\ ~ HasLimit(session')
           /\ "awaiting_zip" \notin DOMAIN session'
           /\ "history" \notin DOMAIN session' /\ History(session') = <<>>
           /\ request.route = "reset" => session' = session ]_vars

\* C12 witness: a reset of a session that awaited a ZIP
C12_Witness ==
    /\ request.route = "reset" /\ request.awaiting = "pharmacies"
    /\ session = EmptySession

\* C13: a message that is empty or all white space is answered with the fixed
\* 400 error in every mode; no service is called and the session is unchanged.
C13_EmptyMessageRejected ==
    [][ (request'.route = "chat" /\ \A i \in 1 .. Len(request'.message) :
                                        request'.message[i].n = 0)
        => /\ response' = Fail(400, "message_required", <<MessageRequired>>)
           /\ calls' = <<>> /\ answers' = NoAnswers /\ used_limit' = 0
           /\ session' = session ]_vars

\* C13 witness: a message of white space only, rejected while a ZIP is awaited
C13_Witness ==
    /\ request.route = "chat" /\ request.awaiting = "pharmacies"
    /\ request.message = <<Blank(MaxBlank)>>
    /\ response.status = 400
    /\ Awaiting(session) /\ HasLimit(session)

\* C14: for a limit in 1 .. 20 and a list with N elements that have coordinates,
\* the listing of format_pharmacy_list has exactly min(N, limit) entries, each a
\* different element with coordinates shown with its distance, in non-decreasing
\* order of distance, entries of equal distance in the order the adapter gave
\* them, and no element left out is nearer than a listed one.
Ranked == answers.overpass.elements
Located == { k \in 1 .. Len(Ranked) : Ranked[k].pos # "none" }
Listed == Tail(response.text)
PlaceOf(line) == CHOOSE k \in 1 .. Len(Ranked) : Ranked[k].id = line.w

C14_RankedListing ==
    (request.route = "rank" /\ response.kind = "poi" /\ Located # {})
    => /\ response.text[1] = ListHeader
       /\ Len(Listed) = Min(Cardinality(Located), used_limit)
       /\ \A i \in 1 .. Len(Listed) :
              /\ \E k \in Located : Ranked[k].id = Listed[i].w
              /\ Listed[i].d = <<Ranked[PlaceOf(Listed[i])].km>>
       /\ \A i, j \in 1 .. Len(Listed) :
              i < j => /\ Listed[i].d[1] <= Listed[j].d[1]
                       /\ PlaceOf(Listed[i]) # PlaceOf(Listed[j])
                       /\ Listed[i].d[1] = Listed[j].d[1]
                          => PlaceOf(Listed[i]) < PlaceOf(Listed[j])
       /\ \A k \in Located :
              (\A i \in 1 .. Len(Listed) : PlaceOf(Listed[i]) # k)
              => \A i \in 1 .. Len(Listed) : Listed[i].d[1] <= Ranked[k].km

\* three located elements, the farthest first, two ties listed under a limit of 2
C14_Witness ==
    /\ request.route = "rank" /\ response.kind = "poi"
    /\ used_limit = 2 /\ Cardinality(Located) = 3
    /\ Ranked[1].km > Ranked[2].km /\ Ranked[2].km = Ranked[3].km
    /\ Len(Listed) = 2 /\ Listed[1].w = "e2" /\ Listed[2].w = "e3"

\* C15: a request that appends an exchange (a listing, a health answer, a
\* decline or a chat answer) leaves the last MAX_HISTORY_ITEMS (8) turns of the
\* old transcript followed by the new user turn and the new model turn: the two
\* newest turns are the pair just appended, the turns before them are the newest
\* turns of the old transcript in their old order, and only the oldest are dropped.
Exchanged == request'.route = "chat"
             /\ response'.kind \in {"poi", "health", "decline", "chat"}

C15_AppendSlides ==
    [][ Exchanged
        => LET old  == History(session)
               new  == History(session')
               n    == Min(Len(old) + 2, MAX_HISTORY_ITEMS)
               gone == Len(old) + 2 - n
           IN  /\ Len(new) = n
               /\ new[n - 1] = [role |-> "user",
                                text |-> _truncate(UserMessage, MAX_HISTORY_CHARS)]
               /\ new[n] = [role |-> "model",
                            text |-> _truncate(response'.text, MAX_HISTORY_CHARS)]
               /\ \A i \in 1 .. n - 2 : new[i] = old[gone + i] ]_vars

\* C15 witness: a chat answer appended to a full transcript, after an exchange
\* with another user text
C15_Witness ==
    /\ request.route = "chat" /\ response.kind = "chat"
    /\ Len(History(session)) = MAX_HISTORY_ITEMS
    /\ History(session)[MAX_HISTORY_ITEMS - 1].text
         = _truncate(Strip(request.message), MAX_HISTORY_CHARS)
    /\ History(session)[MAX_HISTORY_ITEMS - 3].text
         # History(session)[MAX_HISTORY_ITEMS - 1].text
    /\ History(session)[1].text # History(session)[MAX_HISTORY_ITEMS - 1].text

\* C16: in a pharmacy request with a ZIP that geocodes, awaited or one-shot, a
\* proximity search that fails, returns no element, or returns no element with
\* coordinates yields the fixed "No pharmacies found within 8 km" message as a
\* normal reply (status 200, not a listing without entries), logged like any
\* listing, and leaves the session awaiting nothing.
C16_NoPharmaciesReply ==
    [][ ( /\ Chat /\ HasZip(UserMessage)
          /\ Awaiting(session) \/ HasIntent(UserMessage)
          /\ Geocoded
          /\ \A i \in 1 .. Len(Elements) : Elements[i].pos = "none" )
        => /\ answers'.overpass # Unasked
           /\ response' = [status |-> 200, kind |-> "poi", text |-> <<NoPharmacies>>]
           /\ History(session')[Len(History(session'))].text = <<NoPharmacies>>
           /\ ~ Awaiting(session') ]_vars

\* C16 witness: the proximity search failed while the ZIP was awaited
C16_Witness ==
    /\ request.route = "chat" /\ request.awaiting = "pharmacies"
    /\ answers.overpass # Unasked /\ answers.overpass.err
    /\ response.status = 200 /\ response.text = <<NoPharmacies>>
    /\ ~ Awaiting(session)

\* the same message after a one-shot search whose only element has no coordinates
C16_OneShotMiss ==
    /\ request.route = "chat" /\ request.awaiting = ""
    /\ answers.overpass # Unasked /\ ~ answers.overpass.err
    /\ answers.overpass.elements # <<>>
    /\ response.text = <<NoPharmacies>>

\* C17: one request calls each external service (geocoding, proximity search,
\* web search, language model) at most once; a call that failed is the last
\* call of its request, which ends with a reply or an error.
Failed(service) ==
    LET a == CASE service = "geocode"  -> answers.nominatim
               [] service = "overpass" -> answers.overpass
               [] service = "cse"      -> answers.google
               [] service = "llm"      -> answers.gemini
    IN  a # Unasked /\ a.err

C17_NoRetries ==
    /\ \A i, j \in 1 .. Len(calls) : i < j => calls[i] # calls[j]
    /\ \A i \in 1 .. Len(calls) :
          /\ calls[i] \in {"geocode", "overpass", "cse", "llm"}
          /\ Failed(calls[i]) => i = Len(calls)
    /\ response.status \in {200, 400, 500}

\* C17 witness: the language model failed after a search that succeeded, and
\* the request ended after that one call of each
C17_Witness ==
    /\ request.route = "chat"
    /\ calls = <<"cse", "llm">> /\ Failed("llm") /\ ~ Failed("cse")
    /\ response.status = 200

\* C18: pharmacy_limit is stored only while a ZIP is awaited: a session that
\* awaits nothing holds no pharmacy_limit, whichever way it stopped awaiting
\* (the ZIP geocoded, the ZIP did not geocode, or a reset).
C18_LimitOnlyWhileAwaiting ==
    ~ Awaiting(session) => "pharmacy_limit" \notin DOMAIN session

\* C18 witness: the session stopped awaiting with a listing of the three
\* located elements, which used up the stored limit 10
C18_Witness ==
    /\ request.route = "chat" /\ request.awaiting = "pharmacies"
    /\ response.kind = "poi" /\ used_limit = 10 /\ Len(response.text) = 4
    /\ ~ Awaiting(session) /\ "pharmacy_limit" \notin DOMAIN session

\* C19: the transcript always has an even number of turns whose roles alternate
\* user, model, starting with a user turn; so the short history the default
\* branch would hand to Gemini (the last 4 turns at most) is a whole number of
\* user/model pairs that begins with a user turn.
Paired(h) ==
    /\ Len(h) % 2 = 0
    /\ \A i \in 1 .. Len(h) : h[i].role = IF i % 2 = 1 THEN "user" ELSE "model"

C19_TranscriptPaired ==
    /\ Paired(History(session))
    /\ Paired(short_history(session))
    /\ Len(short_history(session)) <= 4

\* C19 witness: a chat answer given with a transcript of more than 4 turns, so
\* that the short history was a proper part of it; the next one is turns 5 to 8
C19_Witness ==
    /\ request.route = "chat" /\ response.kind = "chat"
    /\ Len(History(session)) = MAX_HISTORY_ITEMS
    /\ short_history(session) = SubSeq(History(session), 5, 8)
    /\ short_history(session)[1].role = "user"
    /\ short_history(session)[4].role = "model"

\* C20: while a ZIP is awaited, no non-empty message, whatever its intent,
\* reaches the web search or the language model or replaces the stored
\* pharmacy_limit (a listing uses the stored one); and the session stops
\* awaiting only by a reset or by a message that contains a ZIP.
C20_AwaitingCaptures ==
    [][ Awaiting(session)
        => /\ Chat
              => /\ \A i \in 1 .. Len(calls') : calls'[i] \notin {"cse", "llm"}
                 /\ answers'.google = Unasked /\ answers'.gemini = Unasked
                 /\ response'.kind \in {"reprompt", "poi", "zip_not_found"}
                 /\ HasLimit(session')
                    => session'["pharmacy_limit"] = session["pharmacy_limit"]
                 /\ response'.kind = "poi" => used_limit' = session["pharmacy_limit"]
           /\ ~ Awaiting(session')
              => \/ request'.route = "reset"
                 \/ Chat /\ HasZip(UserMessage) ]_vars

\* C20 witness: a health question asked while the ZIP was awaited was answered
\* with the re-prompt, without a search, and the ZIP is still awaited
C20_Witness ==
    /\ request.route = "chat" /\ request.awaiting = "pharmacies"
    /\ HEALTH_INTENT_RE(Strip(request.message))
    /\ response.kind = "reprompt" /\ calls = <<>>
    /\ answers.google = Unasked /\ answers.gemini = Unasked
    /\ Awaiting(session)

\* the same for a pharmacy request with another count: the stored limit 10 stays
C20_CountIgnored ==
    /\ request.route = "chat" /\ request.awaiting = "pharmacies"
    /\ COUNT_RE(Strip(request.message)) # 0
    /\ response.kind = "reprompt"
    /\ Awaiting(session) /\ session["pharmacy_limit"] = 10
====
